---- MODULE Spec2Model ----
(***************************************************************************)
(* AgentQueueManager (src/server/agentQueueManager.ts): a bounded          *)
(* concurrency admission queue.  At most maxConcurrent agents are recorded *)
(* as running; further agents wait in a FIFO list and are started when a   *)
(* running agent is marked complete.                                       *)
(*                                                                         *)
(* The methods of the class are operators on a record `q` holding the      *)
(* object's fields together with what a call does to the world outside the *)
(* object: the invocations of the spawn callback (`spawned`) and the lines *)
(* written to the console during the call (`console`).  One action per     *)
(* public method applies the operator to the current state.                *)
(***************************************************************************)
EXTENDS Integers, Sequences, FiniteSets, TLC

VARIABLES
  maxConcurrent,    \* private maxConcurrent: number
  runningAgents,    \* private runningAgents: Map<string, RunningAgent>
  queuedAgents,     \* private queuedAgents: AgentTask[]
  onSpawnCallback,  \* private onSpawnCallback?: (task: AgentTask) => void
  now,              \* what Date.now() returns
  spawned,          \* the invocations of the spawn callback, in order
  lastCall,         \* the call made last: method, arguments, result, console
  pre,              \* the object's fields and `spawned` before the last call
  enqueued,         \* history: the enqueueAgent calls made, in order
  completed         \* history: the ids markAgentComplete removed, in order

vars == << maxConcurrent, runningAgents, queuedAgents, onSpawnCallback, now,
           spawned, lastCall, pre, enqueued, completed >>

----------------------------------------------------------------------------
(* Bounds of the model and the inputs the callers draw from.               *)

MaxEnqueues == 3      \* enqueueAgent calls in one behaviour

\* The ids callers use, in the order they first use them.  The class only
\* compares ids for equality, so which string is used first does not matter.
IdOrder == << "agent-1", "agent-2", "agent-3" >>
Ids == {IdOrder[i] : i \in DOMAIN IdOrder}
Tasks == { [type |-> "researcher", prompt |-> "test1"],
           [type |-> "coder", prompt |-> "test2"] }
\* The functions callers register as the spawn callback, in the order they
\* register them; each registration passes a new function.
CallbackOrder == << "cb1", "cb2" >>
Callbacks == {CallbackOrder[i] : i \in DOMAIN CallbackOrder}
Undefined == "undefined"
NoArg == "-"

\* The constructor's argument list: empty, or one number.
CtorArgs == {<< >>, << 0 - 1 >>, << 0 >>, << 1 >>, << 2 >>}

----------------------------------------------------------------------------
(* Map<string, V> as a function from the keys present to their values.     *)

EmptyMap == [k \in {} |-> Undefined]

MapHas(m, k) == k \in DOMAIN m

MapSet(m, k, v) == [x \in (DOMAIN m) \cup {k} |-> IF x = k THEN v ELSE m[x]]

MapDelete(m, k) == [x \in (DOMAIN m) \ {k} |-> m[x]]

MapSize(m) == Cardinality(DOMAIN m)

----------------------------------------------------------------------------
(* The class.                                                              *)

\* constructor(maxConcurrent: number = 2): the default applies when the
\* argument is omitted; any number given is stored as it is.
DefaultMaxConcurrent == 2

\* constructor with 1 as the default of its parameter.
constructor_DefaultOne(args) ==
  [ maxConcurrent   |-> IF Len(args) = 0 THEN 1 ELSE args[1],
    runningAgents   |-> EmptyMap,
    queuedAgents    |-> << >>,
    onSpawnCallback |-> Undefined,
    spawned         |-> << >>,
    console         |-> << >> ]

constructor(args) ==
  [ maxConcurrent   |-> IF Len(args) = 0 THEN DefaultMaxConcurrent ELSE args[1],
    runningAgents   |-> EmptyMap,
    queuedAgents    |-> << >>,
    onSpawnCallback |-> Undefined,
    spawned         |-> << >>,
    console         |-> << >> ]

\* setSpawnCallback that keeps a callback already registered (??= for =).
setSpawnCallback_KeepsFirst(q, callback) ==
  IF q.onSpawnCallback = Undefined
  THEN [q EXCEPT !.onSpawnCallback = callback]
  ELSE q

setSpawnCallback(q, callback) == [q EXCEPT !.onSpawnCallback = callback]

\* this.onSpawnCallback(task): the callback registered receives the task.
InvokeCallback(q, task) ==
  [q EXCEPT !.spawned = Append(@, [callback |-> q.onSpawnCallback, task |-> task])]

\* startAgent that records the agent and never notifies the callback.
startAgent_NoCallback(q, task, t) ==
  [q EXCEPT
     !.runningAgents = MapSet(@, task.id,
                         [id |-> task.id, type |-> task.type, startedAt |-> t]),
     !.console = Append(@, "started")]

\* startAgent notifying the callback before and after it records the agent.
startAgent_NotifiesTwice(q, task, t) ==
  LET q1 == [q EXCEPT
               !.runningAgents = MapSet(@, task.id,
                                   [id |-> task.id, type |-> task.type, startedAt |-> t]),
               !.console = Append(@, "started")]
  IN IF q1.onSpawnCallback # Undefined
     THEN InvokeCallback(InvokeCallback(q1, task), task)
     ELSE q1

\* startAgent doing nothing at all unless a callback is registered.
startAgent_RequiresCallback(q, task, t) ==
  IF q.onSpawnCallback # Undefined
  THEN InvokeCallback(
         [q EXCEPT
            !.runningAgents = MapSet(@, task.id,
                                [id |-> task.id, type |-> task.type, startedAt |-> t]),
            !.console = Append(@, "started")],
         task)
  ELSE q

\* private startAgent(task); t is what Date.now() returns during the call.
startAgent(q, task, t) ==
  LET q1 == [q EXCEPT
               !.runningAgents = MapSet(@, task.id,
                                   [id |-> task.id, type |-> task.type, startedAt |-> t]),
               !.console = Append(@, "started")]
  IN IF q1.onSpawnCallback # Undefined THEN InvokeCallback(q1, task) ELSE q1

\* spawnNextQueued taking the task that arrived last (pop for shift).
spawnNextQueued_TakesLast(q, t) ==
  IF Len(q.queuedAgents) = 0 THEN q
  ELSE IF MapSize(q.runningAgents) >= q.maxConcurrent THEN q
  ELSE LET nextTask == q.queuedAgents[Len(q.queuedAgents)]
           q1 == [q EXCEPT !.queuedAgents = SubSeq(@, 1, Len(@) - 1),
                           !.console = Append(@, "spawning")]
       IN startAgent(q1, nextTask, t)

\* spawnNextQueued reading the head without removing it ([0] for shift()).
spawnNextQueued_NoShift(q, t) ==
  IF Len(q.queuedAgents) = 0 THEN q
  ELSE IF MapSize(q.runningAgents) >= q.maxConcurrent THEN q
  ELSE LET nextTask == Head(q.queuedAgents)
           q1 == [q EXCEPT !.console = Append(@, "spawning")]
       IN startAgent(q1, nextTask, t)

\* spawnNextQueued starting every waiting task once a slot is free (a loop
\* over the list without the capacity test repeated).
spawnNextQueued_Drain(q, t) ==
  IF Len(q.queuedAgents) = 0 THEN q
  ELSE IF MapSize(q.runningAgents) >= q.maxConcurrent THEN q
  ELSE LET w == q.queuedAgents
           ids == {w[i].id : i \in DOMAIN w}
           last(id) == w[CHOOSE i \in DOMAIN w :
                           w[i].id = id /\ \A j \in DOMAIN w : j > i => w[j].id # id]
           old == q.runningAgents
       IN [q EXCEPT
             !.queuedAgents = << >>,
             !.runningAgents =
                [x \in (DOMAIN old) \cup ids |->
                   IF x \in ids
                   THEN [id |-> x, type |-> last(x).type, startedAt |-> t]
                   ELSE old[x]],
             !.spawned =
                IF q.onSpawnCallback # Undefined
                THEN @ \o [i \in DOMAIN w |->
                             [callback |-> q.onSpawnCallback, task |-> w[i]]]
                ELSE @,
             !.console = Append(@, "spawning")]

\* private spawnNextQueued(); t is what Date.now() returns during the call.
spawnNextQueued(q, t) ==
  IF Len(q.queuedAgents) = 0 THEN q
  ELSE IF MapSize(q.runningAgents) >= q.maxConcurrent THEN q
  ELSE LET nextTask == Head(q.queuedAgents)
           q1 == [q EXCEPT !.queuedAgents = Tail(@),
                           !.console = Append(@, "spawning")]
       IN startAgent(q1, nextTask, t)

\* enqueueAgent without the capacity test: every task starts at once.
enqueueAgent_AlwaysStart(q, id, task, t) ==
  LET agentTask == [id |-> id, type |-> task.type, prompt |-> task.prompt,
                    enqueuedAt |-> t]
  IN [q |-> startAgent(q, agentTask, t), ret |-> "running"]

\* enqueueAgent with <= for < in the capacity test.
enqueueAgent_OffByOne(q, id, task, t) ==
  LET agentTask == [id |-> id, type |-> task.type, prompt |-> task.prompt,
                    enqueuedAt |-> t]
  IN IF MapSize(q.runningAgents) <= q.maxConcurrent
     THEN [q |-> startAgent(q, agentTask, t), ret |-> "running"]
     ELSE [q |-> [q EXCEPT !.queuedAgents = Append(@, agentTask),
                           !.console = Append(@, "queued")],
           ret |-> "queued"]

\* enqueueAgent putting the task at the head of the list (unshift for push).
enqueueAgent_Unshift(q, id, task, t) ==
  LET agentTask == [id |-> id, type |-> task.type, prompt |-> task.prompt,
                    enqueuedAt |-> t]
  IN IF MapSize(q.runningAgents) < q.maxConcurrent
     THEN [q |-> startAgent(q, agentTask, t), ret |-> "running"]
     ELSE [q |-> [q EXCEPT !.queuedAgents = << agentTask >> \o @,
                           !.console = Append(@, "queued")],
           ret |-> "queued"]

\* enqueueAgent without the push: a task that finds no free slot is lost.
enqueueAgent_DropsWhenFull(q, id, task, t) ==
  LET agentTask == [id |-> id, type |-> task.type, prompt |-> task.prompt,
                    enqueuedAt |-> t]
  IN IF MapSize(q.runningAgents) < q.maxConcurrent
     THEN [q |-> startAgent(q, agentTask, t), ret |-> "running"]
     ELSE [q |-> [q EXCEPT !.console = Append(@, "queued")], ret |-> "queued"]

\* enqueueAgent making room when full: it removes a running agent and starts
\* the new task in its place.
enqueueAgent_EvictsWhenFull(q, id, task, t) ==
  LET agentTask == [id |-> id, type |-> task.type, prompt |-> task.prompt,
                    enqueuedAt |-> t]
  IN IF MapSize(q.runningAgents) < q.maxConcurrent
     THEN [q |-> startAgent(q, agentTask, t), ret |-> "running"]
     ELSE IF MapSize(q.runningAgents) = 0
     THEN [q |-> [q EXCEPT !.queuedAgents = Append(@, agentTask),
                           !.console = Append(@, "queued")],
           ret |-> "queued"]
     ELSE LET victim == CHOOSE k \in DOMAIN q.runningAgents : TRUE
              q1 == [q EXCEPT !.runningAgents = MapDelete(@, victim)]
          IN [q |-> startAgent(q1, agentTask, t), ret |-> "running"]

\* enqueueAgent letting tasks of type 'coder' wait in front of the others.
enqueueAgent_PriorityByType(q, id, task, t) ==
  LET agentTask == [id |-> id, type |-> task.type, prompt |-> task.prompt,
                    enqueuedAt |-> t]
  IN IF MapSize(q.runningAgents) < q.maxConcurrent
     THEN [q |-> startAgent(q, agentTask, t), ret |-> "running"]
     ELSE [q |-> [q EXCEPT !.queuedAgents =
                             IF task.type = "coder" THEN << agentTask >> \o @
                             ELSE Append(@, agentTask),
                           !.console = Append(@, "queued")],
           ret |-> "queued"]

\* enqueueAgent throwing an error when no slot is free.
enqueueAgent_ThrowsWhenFull(q, id, task, t) ==
  LET agentTask == [id |-> id, type |-> task.type, prompt |-> task.prompt,
                    enqueuedAt |-> t]
  IN IF MapSize(q.runningAgents) < q.maxConcurrent
     THEN [q |-> startAgent(q, agentTask, t), ret |-> "running"]
     ELSE [q |-> q, ret |-> "throw"]

\* enqueueAgent starting a task whenever nothing is running, whatever the
\* capacity.
enqueueAgent_StartsWhenIdle(q, id, task, t) ==
  LET agentTask == [id |-> id, type |-> task.type, prompt |-> task.prompt,
                    enqueuedAt |-> t]
  IN IF MapSize(q.runningAgents) = 0 \/ MapSize(q.runningAgents) < q.maxConcurrent
     THEN [q |-> startAgent(q, agentTask, t), ret |-> "running"]
     ELSE [q |-> [q EXCEPT !.queuedAgents = Append(@, agentTask),
                           !.console = Append(@, "queued")],
           ret |-> "queued"]

\* enqueueAgent(id, task); t is what Date.now() returns during the call.
enqueueAgent(q, id, task, t) ==
  LET agentTask == [id |-> id, type |-> task.type, prompt |-> task.prompt,
                    enqueuedAt |-> t]
  IN IF MapSize(q.runningAgents) < q.maxConcurrent
     THEN [q |-> startAgent(q, agentTask, t), ret |-> "running"]
     ELSE [q |-> [q EXCEPT !.queuedAgents = Append(@, agentTask),
                           !.console = Append(@, "queued")],
           ret |-> "queued"]

\* markAgentComplete without the return after the warning: the lookup of the
\* missing agent yields undefined and reading its startedAt throws.
markAgentComplete_NoReturn(q, id, t) ==
  IF ~MapHas(q.runningAgents, id)
  THEN [q |-> [q EXCEPT !.console = Append(@, "warn")], ret |-> "throw"]
  ELSE LET q1 == [q EXCEPT !.runningAgents = MapDelete(@, id),
                           !.console = Append(@, "completed")]
       IN [q |-> spawnNextQueued(q1, t), ret |-> "void"]

\* markAgentComplete without the call of spawnNextQueued.
markAgentComplete_NoBackfill(q, id, t) ==
  IF ~MapHas(q.runningAgents, id)
  THEN [q |-> [q EXCEPT !.console = Append(@, "warn")], ret |-> "void"]
  ELSE [q |-> [q EXCEPT !.runningAgents = MapDelete(@, id),
                        !.console = Append(@, "completed")],
        ret |-> "void"]

\* markAgentComplete without the delete.
markAgentComplete_KeepsEntry(q, id, t) ==
  IF ~MapHas(q.runningAgents, id)
  THEN [q |-> [q EXCEPT !.console = Append(@, "warn")], ret |-> "void"]
  ELSE LET q1 == [q EXCEPT !.console = Append(@, "completed")]
       IN [q |-> spawnNextQueued(q1, t), ret |-> "void"]

\* markAgentComplete that takes an id that is not running out of the waiting
\* list (completion doubling as cancellation).
markAgentComplete_DropsWaiting(q, id, t) ==
  IF ~MapHas(q.runningAgents, id)
  THEN [q |-> [q EXCEPT !.queuedAgents = SelectSeq(@, LAMBDA w : w.id # id),
                        !.console = Append(@, "warn")],
        ret |-> "void"]
  ELSE LET q1 == [q EXCEPT !.runningAgents = MapDelete(@, id),
                           !.console = Append(@, "completed")]
       IN [q |-> spawnNextQueued(q1, t), ret |-> "void"]

\* markAgentComplete(id); t is what Date.now() returns during the call.
markAgentComplete(q, id, t) ==
  IF ~MapHas(q.runningAgents, id)
  THEN [q |-> [q EXCEPT !.console = Append(@, "warn")], ret |-> "void"]
  ELSE LET q1 == [q EXCEPT !.runningAgents = MapDelete(@, id),
                           !.console = Append(@, "completed")]
       IN [q |-> spawnNextQueued(q1, t), ret |-> "void"]

getRunningCount(q) == MapSize(q.runningAgents)

getQueuedCount(q) == Len(q.queuedAgents)

isAgentRunning(q, id) == MapHas(q.runningAgents, id)

\* getStatus reporting the free slots as max.
getStatus_MaxIsFree(q) ==
  [running |-> MapSize(q.runningAgents), queued |-> Len(q.queuedAgents),
   max |-> q.maxConcurrent - MapSize(q.runningAgents)]

getStatus(q) ==
  [running |-> MapSize(q.runningAgents), queued |-> Len(q.queuedAgents),
   max |-> q.maxConcurrent]

\* isAgentRunning written with Map.prototype.delete, which also answers
\* whether the key was present, in place of has.
observe_DeleteForHas(q, method, id) ==
  IF method = "isAgentRunning"
  THEN [q |-> [q EXCEPT !.runningAgents = MapDelete(@, id)],
        ret |-> << isAgentRunning(q, id) >>]
  ELSE [q |-> q,
        ret |-> IF method = "getRunningCount" THEN << getRunningCount(q) >>
                ELSE IF method = "getQueuedCount" THEN << getQueuedCount(q) >>
                ELSE << getStatus(q) >>]

\* A call of one of the four observers, as a method of the object: the object
\* after the call and the value returned (in a one-element tuple).
observe(q, method, id) ==
  [q |-> q,
   ret |-> IF method = "getRunningCount" THEN << getRunningCount(q) >>
           ELSE IF method = "getQueuedCount" THEN << getQueuedCount(q) >>
           ELSE IF method = "isAgentRunning" THEN << isAgentRunning(q, id) >>
           ELSE << getStatus(q) >>]

----------------------------------------------------------------------------
(* The class with a callback that calls back into the object.  The         *)
(* callback runs inside startAgent (line 130), and what it calls runs      *)
(* there too, on the fields as they are at that point.  A call is threaded *)
(* through a context c: the object q, the clock, the histories, what each  *)
(* callback invocation found (views), the id markAgentComplete is          *)
(* removing, and what the callback does (policy): its k-th invocation      *)
(* within one outermost call reacts as the policy says, cyclically.        *)

Reactions == {"nothing", "enqueueFresh", "completeSelf", "completeOther"}

\* Policies: the callback reacts the same way each time, or alternates.
Policies ==
  {<< r >> : r \in Reactions}
    \cup {<< "completeSelf", "enqueueFresh" >>, << "enqueueFresh", "completeSelf" >>}

\* Nested calls one outermost call can hold at most: every nested
\* enqueueAgent is one of the MaxEnqueues calls, and a nested
\* markAgentComplete that is followed by another call has promoted one of
\* the tasks enqueued.  A deeper nesting is reported as an overflow.
MaxNesting == 2 * MaxEnqueues + 1

\* The id a callback passes to a nested enqueueAgent: the first one that is
\* neither running nor waiting (none: "-").
FreshId(q) ==
  LET free == {i \in DOMAIN IdOrder :
                 /\ ~MapHas(q.runningAgents, IdOrder[i])
                 /\ \A k \in DOMAIN q.queuedAgents : q.queuedAgents[k].id # IdOrder[i]}
  IN IF free = {} THEN NoArg
     ELSE IdOrder[CHOOSE i \in free : \A j \in free : i <= j]

\* The id a callback passes to markAgentComplete when it completes a task
\* other than the one it is invoked for: the one started first (none: "-").
OtherRunning(q, id) ==
  LET others == (DOMAIN q.runningAgents) \ {id}
  IN IF others = {} THEN NoArg
     ELSE CHOOSE x \in others :
            \A y \in others : q.runningAgents[x].startedAt <= q.runningAgents[y].startedAt

\* What a callback invocation finds: the task it receives and the fields.
View(c, task) ==
  [ task       |-> task,
    running    |-> DOMAIN c.q.runningAgents,
    queued     |-> [i \in DOMAIN c.q.queuedAgents |-> c.q.queuedAgents[i].id],
    max        |-> c.q.maxConcurrent,
    completing |-> c.completing ]

Context(q, t, policy, enq, compl) ==
  [ q |-> q, now |-> t, policy |-> policy, enqueued |-> enq, completed |-> compl,
    views |-> << >>, completing |-> NoArg, depth |-> 0, overflow |-> FALSE ]

RECURSIVE invokeCallbackReentrant(_, _)
RECURSIVE startAgentReentrant(_, _, _)
RECURSIVE spawnNextQueuedReentrant(_, _)
RECURSIVE enqueueAgentReentrant(_, _, _)
RECURSIVE markAgentCompleteReentrant(_, _)

\* this.onSpawnCallback(task), line 130: the invocation is recorded, and the
\* callback makes at most one call before it returns.
invokeCallbackReentrant(c, task) ==
  LET c1 == [c EXCEPT !.q = InvokeCallback(c.q, task),
                      !.views = Append(@, View(c, task))]
      reaction == c.policy[(Len(c.views) % Len(c.policy)) + 1]
      fresh == FreshId(c1.q)
      other == OtherRunning(c1.q, task.id)
      nested == [c1 EXCEPT !.depth = @ + 1]
      back(c2) == [c2 EXCEPT !.depth = c.depth]
  IN IF reaction = "nothing" THEN c1
     ELSE IF reaction = "enqueueFresh"
               /\ (fresh = NoArg \/ Len(c1.enqueued) >= MaxEnqueues) THEN c1
     ELSE IF reaction = "completeOther" /\ other = NoArg THEN c1
     ELSE IF c.depth >= MaxNesting THEN [c1 EXCEPT !.overflow = TRUE]
     ELSE IF reaction = "enqueueFresh"
     THEN back(enqueueAgentReentrant(nested, fresh,
                                     [type |-> task.type, prompt |-> task.prompt]).c)
     ELSE IF reaction = "completeSelf"
     THEN back(markAgentCompleteReentrant(nested, task.id).c)
     ELSE back(markAgentCompleteReentrant(nested, other).c)

\* startAgent invoking the callback first and recording the agent after it
\* has returned.
startAgentReentrant_NotifiesFirst(c, task, t) ==
  LET c1 == IF c.q.onSpawnCallback # Undefined
            THEN invokeCallbackReentrant(c, task)
            ELSE c
  IN [c1 EXCEPT
        !.q.runningAgents = MapSet(@, task.id,
                              [id |-> task.id, type |-> task.type, startedAt |-> t]),
        !.q.console = Append(@, "started")]

\* private startAgent(task), lines 120-132.
startAgentReentrant(c, task, t) ==
  LET c1 == [c EXCEPT
               !.q.runningAgents = MapSet(@, task.id,
                                     [id |-> task.id, type |-> task.type, startedAt |-> t]),
               !.q.console = Append(@, "started")]
  IN IF c1.q.onSpawnCallback # Undefined
     THEN invokeCallbackReentrant(c1, task)
     ELSE c1

\* spawnNextQueued starting the head of the list before it removes it.
spawnNextQueuedReentrant_StartsBeforeShift(c, t) ==
  IF Len(c.q.queuedAgents) = 0 THEN c
  ELSE IF MapSize(c.q.runningAgents) >= c.q.maxConcurrent THEN c
  ELSE LET nextTask == Head(c.q.queuedAgents)
           c1 == startAgentReentrant([c EXCEPT !.q.console = Append(@, "spawning")],
                                     nextTask, t)
       IN [c1 EXCEPT !.q.queuedAgents = IF Len(@) = 0 THEN @ ELSE Tail(@)]

\* private spawnNextQueued(), lines 137-150.
spawnNextQueuedReentrant(c, t) ==
  IF Len(c.q.queuedAgents) = 0 THEN c
  ELSE IF MapSize(c.q.runningAgents) >= c.q.maxConcurrent THEN c
  ELSE LET nextTask == Head(c.q.queuedAgents)
           c1 == [c EXCEPT !.q.queuedAgents = Tail(@),
                           !.q.console = Append(@, "spawning")]
       IN startAgentReentrant(c1, nextTask, t)

\* enqueueAgent(id, task), lines 47-65.  The call reads the clock, which has
\* advanced when a nested call reads it.
enqueueAgentReentrant(c, id, task) ==
  LET t == c.now
      agentTask == [id |-> id, type |-> task.type, prompt |-> task.prompt,
                    enqueuedAt |-> t]
      starts == MapSize(c.q.runningAgents) < c.q.maxConcurrent
      ret == IF starts THEN "running" ELSE "queued"
      c0 == [c EXCEPT
               !.now = @ + 1,
               !.completing = NoArg,
               !.enqueued = Append(@, [id |-> id, type |-> task.type,
                                       prompt |-> task.prompt, enqueuedAt |-> t,
                                       ret |-> ret])]
  IN IF starts
     THEN [c |-> startAgentReentrant(c0, agentTask, t), ret |-> "running"]
     ELSE [c |-> [c0 EXCEPT !.q.queuedAgents = Append(@, agentTask),
                            !.q.console = Append(@, "queued")],
           ret |-> "queued"]

\* markAgentComplete(id), lines 70-83.
markAgentCompleteReentrant(c, id) ==
  IF ~MapHas(c.q.runningAgents, id)
  THEN [c |-> [c EXCEPT !.q.console = Append(@, "warn")], ret |-> "void"]
  ELSE LET t == c.now
           c1 == [c EXCEPT !.now = @ + 1,
                           !.completing = id,
                           !.completed = Append(@, id),
                           !.q.runningAgents = MapDelete(@, id),
                           !.q.console = Append(@, "completed")]
       IN [c |-> spawnNextQueuedReentrant(c1, t), ret |-> "void"]

----------------------------------------------------------------------------
(* The object as the state machine's variables.                            *)

\* The object at the start of a call: its fields, and an empty console.
This ==
  [ maxConcurrent   |-> maxConcurrent,
    runningAgents   |-> runningAgents,
    queuedAgents    |-> queuedAgents,
    onSpawnCallback |-> onSpawnCallback,
    spawned         |-> spawned,
    console         |-> << >> ]

Snapshot ==
  [ maxConcurrent   |-> maxConcurrent,
    runningAgents   |-> runningAgents,
    queuedAgents    |-> queuedAgents,
    onSpawnCallback |-> onSpawnCallback,
    spawned         |-> spawned ]

\* The variables take the fields of q; the call made is recorded.
Becomes(q, call) ==
  /\ maxConcurrent' = q.maxConcurrent
  /\ runningAgents' = q.runningAgents
  /\ queuedAgents' = q.queuedAgents
  /\ onSpawnCallback' = q.onSpawnCallback
  /\ spawned' = q.spawned
  /\ lastCall' = [call EXCEPT !.console = q.console]
  /\ pre' = Snapshot

Call(op, id, type, prompt, ret) ==
  [op |-> op, id |-> id, type |-> type, prompt |-> prompt, ret |-> ret,
   console |-> << >>]

Init ==
  \E args \in CtorArgs :
    LET q == constructor(args) IN
      /\ maxConcurrent = q.maxConcurrent
      /\ runningAgents = q.runningAgents
      /\ queuedAgents = q.queuedAgents
      /\ onSpawnCallback = q.onSpawnCallback
      /\ spawned = q.spawned
      /\ now = 0
      /\ lastCall = Call("constructor", NoArg, NoArg, NoArg, "void")
      /\ pre = [maxConcurrent |-> q.maxConcurrent,
                runningAgents |-> q.runningAgents, queuedAgents |-> q.queuedAgents,
                onSpawnCallback |-> q.onSpawnCallback, spawned |-> q.spawned]
      /\ enqueued = << >>
      /\ completed = << >>

\* The ids a caller can name: those already passed to enqueueAgent, and the
\* next one never passed.
UsedIds == {enqueued[i].id : i \in DOMAIN enqueued}

KnownIds ==
  {IdOrder[i] : i \in {j \in DOMAIN IdOrder :
                         \A k \in 1..(j - 1) : IdOrder[k] \in UsedIds}}

\* The functions already registered, as far as the state shows: the one
\* registered now, the one replaced by the last call and those invoked.
Registered ==
  ({onSpawnCallback, pre.onSpawnCallback}
     \cup {spawned[i].callback : i \in DOMAIN spawned}) \ {Undefined}

SetSpawnCallback(callback) ==
  /\ \E i \in DOMAIN CallbackOrder :
       /\ callback = CallbackOrder[i]
       /\ \A k \in 1..(i - 1) : CallbackOrder[k] \in Registered
       /\ \A k \in i..Len(CallbackOrder) : CallbackOrder[k] \notin Registered
  /\ Becomes(setSpawnCallback(This, callback),
             Call("setSpawnCallback", callback, NoArg, NoArg, "void"))
  /\ UNCHANGED << now, enqueued, completed >>

\* The clock: the class reads Date.now() only to fill enqueuedAt and startedAt
\* and to print durations, and never branches on a timestamp.  A call that
\* reads the clock reads one value, and the clock has advanced by the next.
EnqueueAgent(id, task) ==
  /\ Len(enqueued) < MaxEnqueues
  /\ LET r == enqueueAgent(This, id, task, now) IN
       /\ Becomes(r.q, Call("enqueueAgent", id, task.type, task.prompt, r.ret))
       /\ enqueued' = Append(enqueued, [id |-> id, type |-> task.type,
                                        prompt |-> task.prompt, enqueuedAt |-> now,
                                        ret |-> r.ret])
  /\ now' = now + 1
  /\ UNCHANGED completed

MarkAgentComplete(id) ==
  /\ LET r == markAgentComplete(This, id, now) IN
       /\ Becomes(r.q, Call("markAgentComplete", id, NoArg, NoArg, r.ret))
       /\ completed' = IF MapHas(runningAgents, id) THEN Append(completed, id)
                       ELSE completed
       /\ now' = IF MapHas(runningAgents, id) THEN now + 1 ELSE now
  /\ UNCHANGED enqueued

Next ==
  \/ \E callback \in Callbacks : SetSpawnCallback(callback)
  \/ \E id \in KnownIds, task \in Tasks : EnqueueAgent(id, task)
  \/ \E id \in KnownIds : MarkAgentComplete(id)

Spec == Init /\ [][Next]_vars

\* Callers that keep enqueueAgent's precondition: the id passed is neither
\* waiting nor running when the call is made (it may have been used before).
QueuedIds(queue) == {queue[i].id : i \in DOMAIN queue}

Known(id, running, queue) == MapHas(running, id) \/ id \in QueuedIds(queue)

EnqueueFresh(id, task) ==
  /\ ~Known(id, runningAgents, queuedAgents)
  /\ EnqueueAgent(id, task)

NextFresh ==
  \/ \E callback \in Callbacks : SetSpawnCallback(callback)
  \/ \E id \in KnownIds, task \in Tasks : EnqueueFresh(id, task)
  \/ \E id \in KnownIds : MarkAgentComplete(id)

SpecFresh == Init /\ [][NextFresh]_vars

\* Callers that also register a spawn callback before they enqueue anything.
EnqueueRegistered(id, task) ==
  /\ onSpawnCallback # Undefined
  /\ EnqueueFresh(id, task)

NextRegistered ==
  \/ \E callback \in Callbacks : SetSpawnCallback(callback)
  \/ \E id \in KnownIds, task \in Tasks : EnqueueRegistered(id, task)
  \/ \E id \in KnownIds : MarkAgentComplete(id)

SpecRegistered == Init /\ [][NextRegistered]_vars

\* Callers that, besides, complete every task that runs: markAgentComplete
\* for an id that is running is eventually called.
CompleteRunning(id) ==
  /\ MapHas(runningAgents, id)
  /\ MarkAgentComplete(id)

SpecLive ==
  /\ Init /\ [][NextRegistered]_vars
  /\ \A id \in Ids : WF_vars(CompleteRunning(id))

\* Callers that register a callback first, pass fresh ids, and also call the
\* observers, at any time.
ObserverMethods == {"getRunningCount", "getQueuedCount", "isAgentRunning", "getStatus"}

Observe(method, id) ==
  /\ (method = "isAgentRunning") = (id # NoArg)
  /\ LET r == observe(This, method, id) IN
       Becomes(r.q, Call(method, id, NoArg, NoArg, r.ret))
  /\ UNCHANGED << now, enqueued, completed >>

NextObserved ==
  \/ \E callback \in Callbacks : SetSpawnCallback(callback)
  \/ \E id \in KnownIds, task \in Tasks : EnqueueRegistered(id, task)
  \/ \E id \in KnownIds : MarkAgentComplete(id)
  \/ \E method \in ObserverMethods, id \in KnownIds \cup {NoArg} : Observe(method, id)

SpecObserved == Init /\ [][NextObserved]_vars

\* Callers that register a callback first and then pass any id, ids that are
\* running or waiting included, for one enqueueAgent call more than the
\* other specifications make.
MaxRepeats == MaxEnqueues + 1

EnqueueRepeated(id, task) ==
  /\ onSpawnCallback # Undefined
  /\ Len(enqueued) < MaxRepeats
  /\ LET r == enqueueAgent(This, id, task, now) IN
       /\ Becomes(r.q, Call("enqueueAgent", id, task.type, task.prompt, r.ret))
       /\ enqueued' = Append(enqueued, [id |-> id, type |-> task.type,
                                        prompt |-> task.prompt, enqueuedAt |-> now,
                                        ret |-> r.ret])
  /\ now' = now + 1
  /\ UNCHANGED completed

NextRepeated ==
  \/ \E callback \in Callbacks : SetSpawnCallback(callback)
  \/ \E id \in KnownIds, task \in Tasks : EnqueueRepeated(id, task)
  \/ \E id \in KnownIds : MarkAgentComplete(id)

SpecRepeated == Init /\ [][NextRepeated]_vars

\* Callers whose callback calls back into the object: a callback is
\* registered first, the ids passed are neither running nor waiting, and
\* during each outermost call the callback follows one of the policies.
BecomesAfter(c, call) ==
  /\ maxConcurrent' = c.q.maxConcurrent
  /\ runningAgents' = c.q.runningAgents
  /\ queuedAgents' = c.q.queuedAgents
  /\ onSpawnCallback' = c.q.onSpawnCallback
  /\ spawned' = c.q.spawned
  /\ now' = c.now
  /\ enqueued' = c.enqueued
  /\ completed' = c.completed
  /\ pre' = Snapshot
  /\ lastCall' = [op |-> call.op, id |-> call.id, type |-> call.type,
                  prompt |-> call.prompt, ret |-> call.ret, console |-> c.q.console,
                  views |-> c.views, overflow |-> c.overflow]

EnqueueReentrant(id, task, policy) ==
  /\ onSpawnCallback # Undefined
  /\ ~Known(id, runningAgents, queuedAgents)
  /\ Len(enqueued) < MaxEnqueues
  /\ LET r == enqueueAgentReentrant(Context(This, now, policy, enqueued, completed),
                                    id, task)
     IN BecomesAfter(r.c, Call("enqueueAgent", id, task.type, task.prompt, r.ret))

MarkCompleteReentrant(id, policy) ==
  LET r == markAgentCompleteReentrant(Context(This, now, policy, enqueued, completed), id)
  IN BecomesAfter(r.c, Call("markAgentComplete", id, NoArg, NoArg, r.ret))

NextReentrant ==
  \/ \E callback \in Callbacks : SetSpawnCallback(callback)
  \/ \E id \in KnownIds, task \in Tasks, policy \in Policies :
       EnqueueReentrant(id, task, policy)
  \/ \E id \in KnownIds, policy \in Policies : MarkCompleteReentrant(id, policy)

SpecReentrant == Init /\ [][NextReentrant]_vars

----------------------------------------------------------------------------
(* Vocabulary of the properties.  lastCall and pre describe the call that  *)
(* led to the current state, so a postcondition of a method is a state     *)
(* predicate relating pre to the current fields.                           *)

Enqueued(id) == lastCall.op = "enqueueAgent" /\ lastCall.id = id

Completed(id) == lastCall.op = "markAgentComplete" /\ lastCall.id = id

WasKnown(id) == Known(id, pre.runningAgents, pre.queuedAgents)

\* How many times id occurs in the waiting list and the running set together.
Occurrences(id) ==
  Cardinality({i \in DOMAIN queuedAgents : queuedAgents[i].id = id})
    + (IF MapHas(runningAgents, id) THEN 1 ELSE 0)

\* The callback invocations made by the last call.
NewSpawns == SubSeq(spawned, Len(pre.spawned) + 1, Len(spawned))

SpawnsKept ==
  /\ Len(spawned) >= Len(pre.spawned)
  /\ SubSeq(spawned, 1, Len(pre.spawned)) = pre.spawned

\* The task of an enqueueAgent call of the history, as the class stores it.
AsTask(e) ==
  [id |-> e.id, type |-> e.type, prompt |-> e.prompt, enqueuedAt |-> e.enqueuedAt]

\* The calls that returned 'queued', oldest first, as tasks.
QueuedCalls ==
  LET qs == SelectSeq(enqueued, LAMBDA e : e.ret = "queued")
  IN [i \in DOMAIN qs |-> AsTask(qs[i])]

IsSuffix(s, full) ==
  /\ Len(s) <= Len(full)
  /\ s = SubSeq(full, Len(full) - Len(s) + 1, Len(full))

Min(a, b) == IF a <= b THEN a ELSE b

Max(a, b) == IF a >= b THEN a ELSE b

----------------------------------------------------------------------------
(* C1: for a queue constructed with a positive maxConcurrent M, after      *)
(* every call of any sequence of enqueueAgent and markAgentComplete calls  *)
(* (any ids, repeated ids included), getRunningCount() <= M.               *)
C1_RunningWithinCapacity ==
  maxConcurrent >= 1 => getRunningCount(This) <= maxConcurrent

\* At capacity with a task waiting, after a completion has promoted a task.
C1_Witness ==
  /\ maxConcurrent >= 1
  /\ getRunningCount(This) = maxConcurrent
  /\ getQueuedCount(This) >= 1
  /\ lastCall.op = "markAgentComplete"
  /\ Len(queuedAgents) < Len(pre.queuedAgents)

(* C2: when markAgentComplete(id) is called for a running id while the     *)
(* waiting list is non-empty, the task promoted is the head of the list,   *)
(* which is the earliest enqueueAgent call among those still waiting (the  *)
(* waiting list is the not yet promoted 'queued' calls, oldest first), and *)
(* the callback registered receives that task's original id, type and      *)
(* prompt.                                                                 *)
C2_PromotesEarliestWaiting ==
  \A id \in Ids :
    (Completed(id) /\ MapHas(pre.runningAgents, id) /\ Len(pre.queuedAgents) > 0) =>
      LET head == Head(pre.queuedAgents)
          waiting == Len(pre.queuedAgents)
          oldest == QueuedCalls[Len(QueuedCalls) - waiting + 1]
      IN /\ IsSuffix(pre.queuedAgents, QueuedCalls)
         /\ queuedAgents = Tail(pre.queuedAgents)
         /\ MapHas(runningAgents, oldest.id)
         /\ runningAgents[oldest.id].type = oldest.type
         /\ head = oldest
         /\ pre.onSpawnCallback # Undefined =>
              NewSpawns = << [callback |-> pre.onSpawnCallback, task |-> oldest] >>

\* A completion with two tasks waiting and a callback registered: the first
\* of the two is promoted and the second stays.
C2_Witness ==
  /\ lastCall.op = "markAgentComplete"
  /\ MapHas(pre.runningAgents, lastCall.id)
  /\ Len(pre.queuedAgents) >= 2
  /\ pre.queuedAgents[1].id # pre.queuedAgents[2].id
  /\ pre.onSpawnCallback # Undefined
  /\ Len(NewSpawns) = 1

(* C3: when every enqueueAgent call passes an id that is neither waiting   *)
(* nor running at the time of the call, each id appears at most once in    *)
(* the waiting list and the running set together.                          *)
C3_IdAtMostOnce == \A id \in Ids : Occurrences(id) <= 1

\* An id used again after its completion, while other tasks run and wait.
C3_Witness ==
  /\ \E i, j \in DOMAIN enqueued : i < j /\ enqueued[i].id = enqueued[j].id
  /\ getRunningCount(This) >= 1
  /\ getQueuedCount(This) >= 1

(* C4: enqueueAgent called with an id that is running or waiting does not  *)
(* corrupt the state: afterwards the id still appears at most once in the  *)
(* waiting list and the running set together, and the spawn callback has   *)
(* not been invoked by the call.                                           *)
C4_DuplicateAdmissionHarmless ==
  \A id \in Ids :
    (Enqueued(id) /\ WasKnown(id)) =>
      (Occurrences(id) <= 1 /\ spawned = pre.spawned)

(* C5: no queue with maxConcurrent <= 0 reaches a usable state: the        *)
(* constructor fails on such an argument.                                  *)
C5_NonPositiveCapacityRejected == maxConcurrent >= 1

(* C6: enqueueAgent(id, task) with a fresh id while getRunningCount() < M  *)
(* returns 'running', puts the task in the running set with its id and     *)
(* type, leaves the waiting list as it was, and invokes the registered     *)
(* callback once, during the call, with the task's id, type and prompt.    *)
C6_ImmediateAdmission ==
  \A id \in Ids :
    (Enqueued(id) /\ ~WasKnown(id) /\ MapSize(pre.runningAgents) < maxConcurrent) =>
      /\ lastCall.ret = "running"
      /\ DOMAIN runningAgents = DOMAIN pre.runningAgents \cup {id}
      /\ \A other \in DOMAIN pre.runningAgents :
           runningAgents[other] = pre.runningAgents[other]
      /\ runningAgents[id].id = id
      /\ runningAgents[id].type = lastCall.type
      /\ runningAgents[id].startedAt = enqueued[Len(enqueued)].enqueuedAt
      /\ queuedAgents = pre.queuedAgents
      /\ SpawnsKept
      /\ IF pre.onSpawnCallback = Undefined
         THEN NewSpawns = << >>
         ELSE /\ Len(NewSpawns) = 1
              /\ NewSpawns[1].callback = pre.onSpawnCallback
              /\ NewSpawns[1].task.id = id
              /\ NewSpawns[1].task.type = lastCall.type
              /\ NewSpawns[1].task.prompt = lastCall.prompt

\* A second task admitted at once beside a running one, callback registered.
C6_Witness ==
  /\ lastCall.op = "enqueueAgent"
  /\ ~WasKnown(lastCall.id)
  /\ MapSize(pre.runningAgents) >= 1
  /\ MapSize(pre.runningAgents) < maxConcurrent
  /\ pre.onSpawnCallback # Undefined
  /\ lastCall.ret = "running"

(* C7: enqueueAgent(id, task) with a fresh id while getRunningCount() >= M *)
(* returns 'queued', appends the task behind every waiting task, leaves    *)
(* the running set as it was, makes getQueuedCount() grow by exactly 1 and *)
(* does not invoke the spawn callback.                                     *)
C7_QueuedAdmission ==
  \A id \in Ids :
    (Enqueued(id) /\ ~WasKnown(id) /\ MapSize(pre.runningAgents) >= maxConcurrent) =>
      /\ lastCall.ret = "queued"
      /\ Len(queuedAgents) = Len(pre.queuedAgents) + 1
      /\ SubSeq(queuedAgents, 1, Len(pre.queuedAgents)) = pre.queuedAgents
      /\ queuedAgents[Len(queuedAgents)].id = id
      /\ queuedAgents[Len(queuedAgents)].type = lastCall.type
      /\ queuedAgents[Len(queuedAgents)].prompt = lastCall.prompt
      /\ runningAgents = pre.runningAgents
      /\ getQueuedCount(This) = Len(pre.queuedAgents) + 1
      /\ spawned = pre.spawned

\* A task queued behind one already waiting, with a callback registered.
C7_Witness ==
  /\ lastCall.op = "enqueueAgent"
  /\ ~WasKnown(lastCall.id)
  /\ maxConcurrent >= 1
  /\ Len(pre.queuedAgents) >= 1
  /\ pre.onSpawnCallback # Undefined
  /\ lastCall.ret = "queued"

(* C8: from an empty queue with capacity M >= 1, after n enqueueAgent      *)
(* calls with distinct ids and no task completed, getRunningCount() is     *)
(* min(n, M), getQueuedCount() is max(0, n - M), and the running tasks are *)
(* the first min(n, M) enqueued.                                           *)
C8_FillThenQueue ==
  LET n == Len(enqueued) IN
    ( /\ maxConcurrent >= 1
      /\ completed = << >>
      /\ \A i, j \in 1..n : i # j => enqueued[i].id # enqueued[j].id ) =>
        /\ getRunningCount(This) = Min(n, maxConcurrent)
        /\ getQueuedCount(This) = Max(0, n - maxConcurrent)
        /\ DOMAIN runningAgents = {enqueued[i].id : i \in 1..Min(n, maxConcurrent)}

\* M + 1 distinct tasks enqueued with M = 2: two running, one waiting.
C8_Witness ==
  /\ maxConcurrent >= 2
  /\ completed = << >>
  /\ Len(enqueued) = maxConcurrent + 1
  /\ \A i, j \in 1..Len(enqueued) : i # j => enqueued[i].id # enqueued[j].id
  /\ getQueuedCount(This) = 1

(* C9: when M tasks are running, k >= 1 tasks are waiting and              *)
(* markAgentComplete is called for a running id, then on return that id is *)
(* not running, the former head of the waiting list is running,            *)
(* getRunningCount() is M, getQueuedCount() is k - 1 and the callback      *)
(* registered has been invoked for the promoted task.                      *)
C9_AutoBackfill ==
  \A id \in Ids :
    ( /\ Completed(id)
      /\ MapHas(pre.runningAgents, id)
      /\ MapSize(pre.runningAgents) = maxConcurrent
      /\ Len(pre.queuedAgents) >= 1 ) =>
        /\ ~isAgentRunning(This, id)
        /\ isAgentRunning(This, Head(pre.queuedAgents).id)
        /\ getRunningCount(This) = maxConcurrent
        /\ getQueuedCount(This) = Len(pre.queuedAgents) - 1
        /\ pre.onSpawnCallback # Undefined =>
             NewSpawns = << [callback |-> pre.onSpawnCallback,
                             task |-> Head(pre.queuedAgents)] >>

(* C10: markAgentComplete(id) for an id that is not running (never         *)
(* enqueued, already completed, or waiting) returns without throwing and   *)
(* changes nothing: the running set, the waiting list and its order are    *)
(* as before, and the spawn callback is not invoked.                       *)
C10_UnknownCompletionNoOp ==
  \A id \in Ids :
    (Completed(id) /\ ~MapHas(pre.runningAgents, id)) =>
      /\ lastCall.ret = "void"
      /\ runningAgents = pre.runningAgents
      /\ queuedAgents = pre.queuedAgents
      /\ spawned = pre.spawned
      /\ onSpawnCallback = pre.onSpawnCallback

\* markAgentComplete for the second of two waiting ids, while a task runs.
C10_Witness ==
  /\ lastCall.op = "markAgentComplete"
  /\ ~MapHas(pre.runningAgents, lastCall.id)
  /\ Len(pre.queuedAgents) >= 2
  /\ pre.queuedAgents[2].id = lastCall.id
  /\ pre.queuedAgents[1].id # lastCall.id
  /\ MapSize(pre.runningAgents) >= 1

----------------------------------------------------------------------------
(* Further vocabulary.                                                     *)

\* How often the callback has been invoked with this task.
SpawnCount(task) == Cardinality({k \in DOMAIN spawned : spawned[k].task = task})

IsWaiting(task) == \E i \in DOMAIN queuedAgents : queuedAgents[i] = task

EnqueueCount(id) == Cardinality({i \in DOMAIN enqueued : enqueued[i].id = id})

CompleteCount(id) == Cardinality({i \in DOMAIN completed : completed[i] = id})

IsPrefix(s, full) ==
  /\ Len(s) <= Len(full)
  /\ s = SubSeq(full, 1, Len(s))

\* The last call was markAgentComplete for an id that was running.
CompletedRunning ==
  lastCall.op = "markAgentComplete" /\ MapHas(pre.runningAgents, lastCall.id)

\* Where an id is: in the running set, in the waiting list, or in neither.
Place(id, running, queue) ==
  IF MapHas(running, id) THEN "running"
  ELSE IF id \in QueuedIds(queue) THEN "waiting"
  ELSE "absent"

CallbackIndex(callback) ==
  CHOOSE i \in DOMAIN CallbackOrder : CallbackOrder[i] = callback

(* C11: with a callback registered before any enqueueAgent call and ids    *)
(* that are neither waiting nor running when passed, the callback has been *)
(* invoked exactly once with every task that has entered the running set   *)
(* (in the call that put it there) and never with a task still waiting;    *)
(* it is invoked with nothing else.                                        *)
C11_CallbackOncePerTask ==
  /\ \A i \in DOMAIN enqueued :
       LET task == AsTask(enqueued[i])
       IN SpawnCount(task) = IF IsWaiting(task) THEN 0 ELSE 1
  /\ \A k \in DOMAIN spawned :
       \E i \in DOMAIN enqueued : spawned[k].task = AsTask(enqueued[i])
  /\ \A k \in DOMAIN NewSpawns : MapHas(runningAgents, NewSpawns[k].task.id)

\* One task completed, one promoted by that completion, one still waiting.
C11_Witness ==
  /\ Len(completed) >= 1
  /\ lastCall.op = "markAgentComplete"
  /\ Len(NewSpawns) = 1
  /\ Len(queuedAgents) >= 1
  /\ Len(spawned) = 2

C13_NoTaskDropped ==
  /\ \A id \in Ids : EnqueueCount(id) = Occurrences(id) + CompleteCount(id)
  /\ Len(enqueued) = getQueuedCount(This) + getRunningCount(This) + Len(completed)

\* A task in each of the three places.
C13_Witness ==
  /\ getQueuedCount(This) >= 1
  /\ getRunningCount(This) >= 1
  /\ Len(completed) >= 1

(* C14: isAgentRunning(id) is true right after enqueueAgent returns        *)
(* 'running' for id, and false right after markAgentComplete(id) returns,  *)
(* for every id and every history of calls.                                *)
C14_RunningFlagFollowsCalls ==
  \A id \in Ids :
    /\ (Enqueued(id) /\ lastCall.ret = "running") => isAgentRunning(This, id)
    /\ Completed(id) => ~isAgentRunning(This, id)

(* C15: one markAgentComplete call promotes at most one waiting task: it   *)
(* leaves the waiting list as it was or removes its head only, and adds at *)
(* most one id to the running set.                                         *)
C15_AtMostOnePromotion ==
  lastCall.op = "markAgentComplete" =>
    /\ \/ queuedAgents = pre.queuedAgents
       \/ (Len(pre.queuedAgents) >= 1 /\ queuedAgents = Tail(pre.queuedAgents))
    /\ Cardinality(DOMAIN runningAgents \ DOMAIN pre.runningAgents) <= 1
    /\ Len(NewSpawns) <= 1

\* A completion with two tasks waiting: one is promoted, one stays.
C15_Witness ==
  /\ CompletedRunning
  /\ Len(pre.queuedAgents) >= 2
  /\ Len(queuedAgents) = Len(pre.queuedAgents) - 1
  /\ Len(queuedAgents) >= 1

(* C16: completing a running task while the waiting list is empty makes    *)
(* getRunningCount() one less, leaves the waiting list empty and invokes   *)
(* no callback; when it was the only running task, getRunningCount() = 0.  *)
C16_CompleteWithEmptyQueue ==
  (CompletedRunning /\ Len(pre.queuedAgents) = 0) =>
    /\ getRunningCount(This) = MapSize(pre.runningAgents) - 1
    /\ runningAgents = MapDelete(pre.runningAgents, lastCall.id)
    /\ getQueuedCount(This) = 0
    /\ spawned = pre.spawned
    /\ MapSize(pre.runningAgents) = 1 => getRunningCount(This) = 0

\* The last of two running tasks is completed with a callback registered.
C16_Witness ==
  /\ CompletedRunning
  /\ Len(pre.queuedAgents) = 0
  /\ MapSize(pre.runningAgents) = 1
  /\ Len(completed) >= 2
  /\ onSpawnCallback # Undefined
  /\ getRunningCount(This) = 0

(* C17: one callback is kept: setSpawnCallback makes its argument the      *)
(* callback registered and invokes nothing; every invocation a call makes  *)
(* goes to the callback registered when the call is made, also for a task  *)
(* that has waited; a callback that was replaced is not invoked again.     *)
C17_LatestCallbackOnly ==
  /\ lastCall.op = "setSpawnCallback" =>
       (onSpawnCallback = lastCall.id /\ spawned = pre.spawned)
  /\ lastCall.op # "setSpawnCallback" => onSpawnCallback = pre.onSpawnCallback
  /\ \A k \in DOMAIN NewSpawns : NewSpawns[k].callback = pre.onSpawnCallback
  /\ \A k, l \in DOMAIN spawned :
       k < l => CallbackIndex(spawned[k].callback) <= CallbackIndex(spawned[l].callback)

\* A task that had to wait is started under the second callback, after the
\* first callback was invoked for an earlier task.
C17_Witness ==
  /\ maxConcurrent >= 1
  /\ onSpawnCallback = CallbackOrder[2]
  /\ CompletedRunning
  /\ Len(NewSpawns) = 1
  /\ NewSpawns[1].callback = CallbackOrder[2]
  /\ \E k \in DOMAIN pre.spawned : pre.spawned[k].callback = CallbackOrder[1]
  /\ \E i \in DOMAIN enqueued :
       enqueued[i].ret = "queued" /\ AsTask(enqueued[i]) = NewSpawns[1].task

(* C18: getRunningCount, getQueuedCount, isAgentRunning and getStatus      *)
(* return what the fields say and change nothing: after the call the       *)
(* running set, the waiting list, the capacity, the callback registered    *)
(* and the callback's invocations are what they were before it, so every   *)
(* later call finds the state it would have found without the observer.    *)
C18_ObserversPure ==
  lastCall.op \in ObserverMethods =>
    /\ maxConcurrent = pre.maxConcurrent
    /\ runningAgents = pre.runningAgents
    /\ queuedAgents = pre.queuedAgents
    /\ onSpawnCallback = pre.onSpawnCallback
    /\ spawned = pre.spawned
    /\ lastCall.console = << >>
    /\ lastCall.op = "getRunningCount" =>
         lastCall.ret = << MapSize(pre.runningAgents) >>
    /\ lastCall.op = "getQueuedCount" =>
         lastCall.ret = << Len(pre.queuedAgents) >>
    /\ lastCall.op = "isAgentRunning" =>
         lastCall.ret = << MapHas(pre.runningAgents, lastCall.id) >>
    /\ lastCall.op = "getStatus" =>
         lastCall.ret = << [running |-> MapSize(pre.runningAgents),
                            queued |-> Len(pre.queuedAgents),
                            max |-> pre.maxConcurrent] >>

\* isAgentRunning answers true for a running id while another task waits.
C18_Witness ==
  /\ lastCall.op = "isAgentRunning"
  /\ lastCall.ret = << TRUE >>
  /\ Len(queuedAgents) >= 1
  /\ onSpawnCallback # Undefined

(* C19: an id leaves the running set only in a markAgentComplete call for  *)
(* that id.  Hence while M tasks run, a call that is not markAgentComplete *)
(* for one of them (enqueueAgent, markAgentComplete for another id, an     *)
(* observer) leaves the running set as it is, promotes no waiting task,    *)
(* and if it is enqueueAgent it returns 'queued'.                          *)
C19_SlotFreedOnlyByComplete ==
  /\ \A id \in DOMAIN pre.runningAgents :
       ~MapHas(runningAgents, id) => Completed(id)
  /\ (MapSize(pre.runningAgents) >= maxConcurrent /\ ~CompletedRunning) =>
       /\ runningAgents = pre.runningAgents
       /\ IsPrefix(pre.queuedAgents, queuedAgents)
       /\ lastCall.op = "enqueueAgent" => lastCall.ret = "queued"

\* With M >= 1 tasks running and none ever completed, a further task is
\* queued behind one that is waiting already.
C19_Witness ==
  /\ maxConcurrent >= 1
  /\ completed = << >>
  /\ MapSize(pre.runningAgents) = maxConcurrent
  /\ Len(pre.queuedAgents) >= 1
  /\ lastCall.op = "enqueueAgent"
  /\ lastCall.ret = "queued"

(* C20: with ids that are neither waiting nor running when passed, the     *)
(* only moves an id makes in a call are absent -> running (enqueueAgent of *)
(* it with a free slot), absent -> waiting (enqueueAgent of it at          *)
(* capacity), waiting -> running (in a markAgentComplete call for a        *)
(* running id) and running -> absent (markAgentComplete of it).            *)
C20_TaskStateMachine ==
  \A id \in Ids :
    LET from == Place(id, pre.runningAgents, pre.queuedAgents)
        to == Place(id, runningAgents, queuedAgents)
    IN \/ from = to
       \/ /\ from = "absent" /\ to = "running"
          /\ Enqueued(id) /\ MapSize(pre.runningAgents) < maxConcurrent
       \/ /\ from = "absent" /\ to = "waiting"
          /\ Enqueued(id) /\ MapSize(pre.runningAgents) >= maxConcurrent
       \/ /\ from = "waiting" /\ to = "running"
          /\ CompletedRunning /\ lastCall.id # id
       \/ /\ from = "running" /\ to = "absent"
          /\ Completed(id)

\* One call takes an id from running to absent and another from waiting to
\* running, while a third id stays waiting.
C20_Witness ==
  /\ CompletedRunning
  /\ Place(lastCall.id, runningAgents, queuedAgents) = "absent"
  /\ \E id \in Ids :
       /\ Place(id, pre.runningAgents, pre.queuedAgents) = "waiting"
       /\ Place(id, runningAgents, queuedAgents) = "running"
  /\ \E id \in Ids :
       /\ Place(id, pre.runningAgents, pre.queuedAgents) = "waiting"
       /\ Place(id, runningAgents, queuedAgents) = "waiting"

(* C21: with a callback registered first and ids that are neither waiting  *)
(* nor running when passed, tasks enter the running set, and the callback  *)
(* is invoked, in the order of the enqueueAgent calls: the k-th invocation *)
(* is for the k-th call, the waiting list is the calls after those, in     *)
(* order, and enqueueAgent returns 'running' only with nobody waiting.     *)
C21_StartOrderIsArrivalOrder ==
  /\ Len(spawned) <= Len(enqueued)
  /\ \A k \in DOMAIN spawned : spawned[k].task = AsTask(enqueued[k])
  /\ queuedAgents = [i \in 1..(Len(enqueued) - Len(spawned)) |->
                       AsTask(enqueued[Len(spawned) + i])]
  /\ \A id \in Ids :
       (Enqueued(id) /\ lastCall.ret = "running") => Len(pre.queuedAgents) = 0

\* One waiting task has been promoted, another waits, and a third task was
\* admitted at once earlier on.
C21_Witness ==
  /\ maxConcurrent >= 1
  /\ Len(spawned) = 2
  /\ enqueued[1].ret = "running"
  /\ enqueued[2].ret = "queued"
  /\ Len(queuedAgents) = 1
  /\ CompletedRunning

(* C22: for M >= 1, after every call of any sequence of enqueueAgent and   *)
(* markAgentComplete calls, a non-empty waiting list implies               *)
(* getRunningCount() = M.                                                  *)
C22_WorkConserving ==
  (maxConcurrent >= 1 /\ getQueuedCount(This) >= 1) =>
    getRunningCount(This) = maxConcurrent

----------------------------------------------------------------------------
(* Vocabulary for comparing runs.                                          *)

\* The object as it was before the last call.
PreThis ==
  [ maxConcurrent   |-> pre.maxConcurrent,
    runningAgents   |-> pre.runningAgents,
    queuedAgents    |-> pre.queuedAgents,
    onSpawnCallback |-> pre.onSpawnCallback,
    spawned         |-> pre.spawned,
    console         |-> << >> ]

\* What of an object does not depend on the tasks' type and prompt: the
\* capacity, the ids running and the ids waiting, in order.
Shape(q) ==
  [ max     |-> q.maxConcurrent,
    running |-> DOMAIN q.runningAgents,
    queued  |-> [i \in DOMAIN q.queuedAgents |-> q.queuedAgents[i].id] ]

\* The ids of the callback invocations q has beyond those of q0.
FiredIds(q0, q) ==
  [k \in 1..(Len(q.spawned) - Len(q0.spawned)) |->
     q.spawned[Len(q0.spawned) + k].task.id]

\* The object q of another run: the same ids in the same places, the task
\* with id x carrying the type and prompt content[x].
Recontent(q, content) ==
  LET running == q.runningAgents
      queue == q.queuedAgents
  IN [q EXCEPT
        !.runningAgents =
           [x \in DOMAIN running |->
              [id |-> running[x].id, type |-> content[x].type,
               startedAt |-> running[x].startedAt]],
        !.queuedAgents =
           [i \in DOMAIN queue |->
              [id |-> queue[i].id, type |-> content[queue[i].id].type,
               prompt |-> content[queue[i].id].prompt,
               enqueuedAt |-> queue[i].enqueuedAt]]]

(* C25: type and prompt do not influence admission.  Take the state before *)
(* the last call and any other run's state with the same ids in the same   *)
(* places but other types and prompts: the same call there, with any type  *)
(* and prompt, returns the same result, leads to the same running ids and  *)
(* the same waiting ids in the same order, and invokes the callback for    *)
(* the same ids in the same order.                                         *)
C25_ContentIndependent ==
  \A content \in [Ids -> Tasks] :
    LET other == Recontent(PreThis, content) IN
      /\ lastCall.op = "enqueueAgent" =>
           \A task \in Tasks :
             LET r == enqueueAgent(other, lastCall.id, task, now) IN
               /\ r.ret = lastCall.ret
               /\ Shape(r.q) = Shape(This)
               /\ FiredIds(other, r.q) = FiredIds(PreThis, This)
      /\ lastCall.op = "markAgentComplete" =>
           LET r == markAgentComplete(other, lastCall.id, now) IN
             /\ r.ret = lastCall.ret
             /\ Shape(r.q) = Shape(This)
             /\ FiredIds(other, r.q) = FiredIds(PreThis, This)

\* A 'coder' task was queued behind a 'researcher' task, and the
\* 'researcher' task has been promoted.
C25_Witness ==
  /\ CompletedRunning
  /\ Len(pre.queuedAgents) = 2
  /\ pre.queuedAgents[1].type = "researcher"
  /\ pre.queuedAgents[2].type = "coder"
  /\ Len(NewSpawns) = 1
  /\ NewSpawns[1].task = pre.queuedAgents[1]

(* C26: getStatus() agrees with getRunningCount() and getQueuedCount(),    *)
(* and its max is the constructor's argument (2 when there is none): the   *)
(* constructor stores it, and no call changes it.                          *)
C26_StatusConsistent ==
  /\ getStatus(This).running = getRunningCount(This)
  /\ getStatus(This).queued = getQueuedCount(This)
  /\ \A args \in CtorArgs :
       getStatus(constructor(args)).max =
         IF Len(args) = 0 THEN DefaultMaxConcurrent ELSE args[1]
  /\ lastCall.op = "constructor" =>
       \E args \in CtorArgs : getStatus(This) = getStatus(constructor(args))
  /\ getStatus(This).max = getStatus(PreThis).max

\* A task running, a task waiting and a task completed, capacity 1.
C26_Witness ==
  /\ getStatus(This) = [running |-> 1, queued |-> 1, max |-> 1]
  /\ Len(completed) >= 1

(* C27: enqueueAgent returns 'running' or 'queued' and markAgentComplete   *)
(* returns without a value in every state and for every id, the waiting    *)
(* and the unknown ones included; neither throws.                          *)
C27_NoExceptionEscapes ==
  /\ lastCall.op = "enqueueAgent" => lastCall.ret \in {"running", "queued"}
  /\ lastCall.op = "markAgentComplete" => lastCall.ret = "void"
  /\ lastCall.op = "setSpawnCallback" => lastCall.ret = "void"

\* With every slot taken and a task waiting, markAgentComplete is called
\* for an id that is not running.
C27_Witness ==
  /\ lastCall.op = "markAgentComplete"
  /\ ~MapHas(pre.runningAgents, lastCall.id)
  /\ MapSize(runningAgents) >= maxConcurrent
  /\ \E i \in DOMAIN enqueued : enqueued[i].ret = "queued"
  /\ \E i \in DOMAIN enqueued : enqueued[i].ret = "running"

(* C28: with no callback registered, enqueueAgent with a free slot still   *)
(* puts the id in the running set and returns 'running', and               *)
(* markAgentComplete still moves the head of the waiting list to the       *)
(* running set, without any callback invocation; a callback is only ever   *)
(* invoked with the task the current call starts, so registering one later *)
(* notifies nothing about the tasks already running.                       *)
C28_AdmissionWithoutCallback ==
  /\ (lastCall.op = "enqueueAgent" /\ pre.onSpawnCallback = Undefined) =>
       /\ spawned = pre.spawned
       /\ MapSize(pre.runningAgents) < maxConcurrent =>
            (lastCall.ret = "running" /\ MapHas(runningAgents, lastCall.id))
  /\ (CompletedRunning /\ pre.onSpawnCallback = Undefined) =>
       /\ spawned = pre.spawned
       /\ (Len(pre.queuedAgents) >= 1 /\ MapSize(pre.runningAgents) <= maxConcurrent) =>
            /\ MapHas(runningAgents, Head(pre.queuedAgents).id)
            /\ queuedAgents = Tail(pre.queuedAgents)
  /\ lastCall.op = "setSpawnCallback" =>
       (spawned = pre.spawned /\ runningAgents = pre.runningAgents)
  /\ \A k \in DOMAIN NewSpawns :
       \/ /\ lastCall.op = "enqueueAgent"
          /\ NewSpawns[k].task = AsTask(enqueued[Len(enqueued)])
       \/ /\ CompletedRunning
          /\ Len(pre.queuedAgents) >= 1
          /\ NewSpawns[k].task = Head(pre.queuedAgents)

\* A waiting task is promoted while no callback has ever been registered.
C28_Witness ==
  /\ CompletedRunning
  /\ pre.onSpawnCallback = Undefined
  /\ Len(pre.queuedAgents) >= 1
  /\ MapHas(runningAgents, Head(pre.queuedAgents).id)
  /\ Head(pre.queuedAgents).id # lastCall.id
  /\ spawned = << >>

(* C29: a queue with maxConcurrent = 0 starts nothing: every enqueueAgent  *)
(* call has returned 'queued', getRunningCount() = 0, the callback has     *)
(* never been invoked, and every call leaves the waiting list as it was or *)
(* longer by the task enqueued.                                            *)
C29_ZeroCapacityNeverDispatches ==
  maxConcurrent = 0 =>
    /\ getRunningCount(This) = 0
    /\ spawned = << >>
    /\ \A i \in DOMAIN enqueued : enqueued[i].ret = "queued"
    /\ IsPrefix(pre.queuedAgents, queuedAgents)
    /\ queuedAgents = [i \in DOMAIN enqueued |-> AsTask(enqueued[i])]

\* Capacity 0, a callback registered, two tasks waiting, and
\* markAgentComplete called for one of them.
C29_Witness ==
  /\ maxConcurrent = 0
  /\ onSpawnCallback # Undefined
  /\ Len(queuedAgents) >= 2
  /\ lastCall.op = "markAgentComplete"
  /\ lastCall.id \in QueuedIds(queuedAgents)

(* C30: a queue constructed without an argument has getStatus().max = 2;   *)
(* with that capacity, and no task completed yet, the first two            *)
(* enqueueAgent calls with distinct ids return 'running' and the third     *)
(* returns 'queued'.                                                       *)
C30_DefaultCapacityTwo ==
  LET d == constructor(<< >>) IN
    /\ getStatus(d).max = 2
    /\ (maxConcurrent = d.maxConcurrent /\ completed = << >>
          /\ Cardinality(UsedIds) = Len(enqueued)) =>
         \A i \in DOMAIN enqueued :
           enqueued[i].ret = IF i <= 2 THEN "running" ELSE "queued"

\* Three distinct ids enqueued on a queue of capacity 2, none completed.
C30_Witness ==
  /\ maxConcurrent = constructor(<< >>).maxConcurrent
  /\ completed = << >>
  /\ Len(enqueued) = 3
  /\ Cardinality(UsedIds) = 3
  /\ getStatus(This) = [running |-> 2, queued |-> 1, max |-> 2]

----------------------------------------------------------------------------
(* Vocabulary for the callback that calls back.                            *)

\* The last call was an outermost enqueueAgent or markAgentComplete call of
\* a caller whose callback may call back.
Reentered == lastCall.op \in {"enqueueAgent", "markAgentComplete"}

\* Every enqueueAgent call reads a later clock value than the one before, so
\* enqueuedAt tells the order of the calls.
InArrivalOrder(queue) ==
  \A i, j \in DOMAIN queue : i < j => queue[i].enqueuedAt < queue[j].enqueuedAt

====
